---- MODULE Spec2Model ----
(***************************************************************************)
(* Model of FreelanceJobTracker (src/freelance-job-tracker.py): the        *)
(* in-memory collection self.jobs, the backing CSV file, and the           *)
(* operations add_job, mark_as_paid, edit_job, list_jobs and get_stats.    *)
(*                                                                         *)
(* A row of the DataFrame is a function from column names to cell values;  *)
(* a cell value is a tagged record (None, a string, a number, a boolean    *)
(* or a point in time), because a pandas cell holds any Python object.     *)
(* Time is counted in whole days: a deadline parsed from 'YYYY-MM-DD' is   *)
(* a day number, datetime.now() is the day number of the clock; day 0 is   *)
(* 2025-06-01, the day the process starts.                                 *)
(***************************************************************************)
EXTENDS Integers, Sequences, FiniteSets, TLC

VARIABLES
    jobs,      \* self.jobs: the rows of the DataFrame, in order
    columns,   \* self.jobs.columns
    file,      \* the backing CSV file
    now,       \* the clock read by datetime.now()
    prev,      \* history: self.jobs when the last call started
    last,      \* history: the last call, its arguments and how it ended
    out,       \* what the last list_jobs or get_stats call reported
    ncalls     \* the number of calls made in this session so far

vars == <<jobs, columns, file, now, prev, last, out, ncalls>>

(* ------------------------------ bounds -------------------------------- *)

MaxJobs == 2     \* rows the collection may hold
MaxCalls == 4    \* calls made in one session
MaxTime == 1     \* days the clock may advance
MaxDays == 2     \* largest upcoming_deadlines argument

(* ---------------------------- cell values ----------------------------- *)

None == [t |-> "none"]
Str(s) == [t |-> "str", v |-> s]
Num(n) == [t |-> "num", v |-> n]
Bool(b) == [t |-> "bool", v |-> b]
Time(d) == [t |-> "time", v |-> d]

Raised == [ok |-> FALSE]
Ok(x) == [ok |-> TRUE, v |-> x]

\* Python truthiness of an argument: None and the empty string are false.
truthy(x) ==
    CASE x.t = "none" -> FALSE
      [] x.t = "str" -> x.v # ""
      [] x.t = "num" -> x.v # 0
      [] x.t = "bool" -> x.v
      [] OTHER -> TRUE

\* float(x): a number is kept, a string is parsed, anything else raises.
float(x) ==
    CASE x.t = "num" -> Ok(Num(x.v))
      [] x.t = "bool" -> Ok(Num(IF x.v THEN 1 ELSE 0))
      [] x.t = "str" /\ x.v = "2" -> Ok(Num(2))
      [] x.t = "str" /\ x.v = "4" -> Ok(Num(4))
      [] x.t = "str" /\ x.v = "-5" -> Ok(Num(-5))
      [] x.t = "str" /\ x.v = "0" -> Ok(Num(0))
      [] OTHER -> Raised

\* pd.to_datetime(x): a datetime is kept, a date string is parsed to its day.
to_datetime(x) ==
    CASE x.t = "time" -> Ok(Time(x.v))
      [] x.t = "str" /\ x.v = "2025-06-01" -> Ok(Time(0))
      [] x.t = "str" /\ x.v = "2025-06-03" -> Ok(Time(2))
      [] OTHER -> Raised

\* bool(x)
bool(x) == Ok(Bool(truthy(x)))

(* --------------------------- the collection --------------------------- *)

\* load_data, file absent: the fixed column set of a new DataFrame.
Columns == {"client_name", "project_name", "rate", "paid",
            "deadline", "date_added", "hours", "notes"}

Absent == [exists |-> FALSE]

\* DataFrame.to_csv(index = False): a header row and one line per row, in order.
to_csv(df, cols) == [exists |-> TRUE, header |-> cols, rows |-> df]

\* The rows whose project_name equals p, as a set of positions.
Matching(df, p) == {i \in DOMAIN df : df[i]["project_name"] = Str(p)}

\* A membership test that never fails: the not-found branch is never taken.
HasProject_always(df, p) == TRUE

\* p in self.jobs['project_name'].values
HasProject(df, p) == Matching(df, p) # {}

\* A write to the first matching row alone.
SetLoc_first(df, p, col, value) ==
    [i \in DOMAIN df |->
        IF i \in Matching(df, p) /\ \A j \in Matching(df, p) : i <= j
        THEN [c \in DOMAIN df[i] \cup {col} |-> IF c = col THEN value ELSE df[i][c]]
        ELSE [c \in DOMAIN df[i] \cup {col} |->
                 IF c \in DOMAIN df[i] THEN df[i][c] ELSE None]]

\* self.jobs.loc[self.jobs['project_name'] == p, col] = value
\* (setting a column the frame does not have adds it, None in the other rows)
SetLoc(df, p, col, value) ==
    [i \in DOMAIN df |->
        IF i \in Matching(df, p)
        THEN [c \in DOMAIN df[i] \cup {col} |-> IF c = col THEN value ELSE df[i][c]]
        ELSE [c \in DOMAIN df[i] \cup {col} |->
                 IF c \in DOMAIN df[i] THEN df[i][c] ELSE None]]

(* ------------------------------- inputs ------------------------------- *)

ClientNames == {"Acme"}
ProjectNames == {"Web", "App"}
RateInputs == {Str("abc"), Str("-5"), Str("2")}
DeadlineInputs == {Str("soon"), Str("2025-06-01")}
HoursInputs == {None, Str("abc")}
NotesInputs == {None}

\* add_job arguments of the query specification: all well-formed.
QueryProjectNames == {"Web"}
QueryRateInputs == {Str("2"), Str("4")}
QueryDeadlineInputs == {Str("2025-06-01"), Str("2025-06-03")}
QueryHoursInputs == {None, Str("4")}


\* Keyword arguments of edit_job: ordered, one value per key.
KwHours == [k |-> "hours", v |-> Str("4")]
KwRate == [k |-> "rate", v |-> Str("abc")]
KwDateAdded == [k |-> "date_added", v |-> Time(-1)]
KwBogus == [k |-> "bogus", v |-> Str("x")]
KwDeadline == [k |-> "deadline", v |-> Str("soon")]

Kwargs ==
    {<<>>, <<KwHours>>, <<KwRate>>, <<KwDateAdded>>, <<KwBogus>>, <<KwDeadline>>,
     <<KwHours, KwRate>>, <<KwRate, KwHours>>,
     <<KwBogus, KwHours>>, <<KwHours, KwBogus>>}

\* list_jobs arguments.
DaysInputs == {None} \cup {Num(d) : d \in 0..MaxDays}

(* ------------------------------ operations ---------------------------- *)

Init ==
    /\ jobs = <<>>
    /\ columns = Columns
    /\ file = Absent
    /\ now = 0
    /\ prev = <<>>
    /\ last = [op |-> "init", project_name |-> "", kwargs |-> <<>>,
               raised |-> FALSE, saved |-> FALSE, at |-> 0]
    /\ out = None
    /\ ncalls = 0

\* The clock advances between calls.
Tick ==
    /\ now < MaxTime
    /\ now' = now + 1
    /\ UNCHANGED <<jobs, columns, file, prev, last, out, ncalls>>

\* save_data (lines 26-29): the whole collection overwrites the file.
save_data(df, cols) == to_csv(df, cols)

\* The row add_job builds (lines 33-42), or Raised when a conversion raises.
new_job(client_name, project_name, rate, deadline, hours, notes) ==
    LET r == float(rate)
        d == to_datetime(deadline)
        h == IF truthy(hours) THEN float(hours) ELSE Ok(None)
    IN  IF ~r.ok \/ ~d.ok \/ ~h.ok THEN Raised
        ELSE Ok([c \in Columns |->
                 CASE c = "client_name" -> Str(client_name)
                   [] c = "project_name" -> Str(project_name)
                   [] c = "rate" -> r.v
                   [] c = "paid" -> Bool(FALSE)
                   [] c = "deadline" -> d.v
                   [] c = "date_added" -> Time(now)
                   [] c = "hours" -> h.v
                   [] c = "notes" -> notes])

\* A concat with its operands swapped: the new row goes first.
concat_front(df, row) == <<row>> \o df

\* pd.concat([self.jobs, pd.DataFrame([new_job])], ignore_index=True) (line 44)
concat(df, row) == Append(df, row)

add_job(client_name, project_name, rate, deadline, hours, notes) ==
    LET nj == new_job(client_name, project_name, rate, deadline, hours, notes)
        args == <<[k |-> "rate", v |-> rate], [k |-> "deadline", v |-> deadline],
                  [k |-> "hours", v |-> hours]>>
    IN  /\ Len(jobs) < MaxJobs
        /\ ncalls < MaxCalls
        /\ ncalls' = ncalls + 1
        /\ prev' = jobs
        /\ out' = None
        /\ UNCHANGED <<columns, now>>
        /\ IF nj.ok
           THEN /\ jobs' = concat(jobs, nj.v)
                /\ file' = save_data(jobs', columns)
                /\ last' = [op |-> "add_job", project_name |-> project_name,
                            kwargs |-> args, raised |-> FALSE, saved |-> TRUE,
                            at |-> now]
           ELSE /\ UNCHANGED <<jobs, file>>
                /\ last' = [op |-> "add_job", project_name |-> project_name,
                            kwargs |-> args, raised |-> TRUE, saved |-> FALSE,
                            at |-> now]

mark_as_paid(project_name) ==
    /\ ncalls < MaxCalls
    /\ ncalls' = ncalls + 1
    /\ prev' = jobs
    /\ out' = None
    /\ UNCHANGED <<columns, now>>
    /\ IF HasProject(jobs, project_name)
       THEN /\ jobs' = SetLoc(jobs, project_name, "paid", Bool(TRUE))
            /\ file' = save_data(jobs', columns)
            /\ last' = [op |-> "mark_as_paid", project_name |-> project_name,
                        kwargs |-> <<>>, raised |-> FALSE, saved |-> TRUE, at |-> now]
       ELSE /\ UNCHANGED <<jobs, file>>
            /\ last' = [op |-> "mark_as_paid", project_name |-> project_name,
                        kwargs |-> <<>>, raised |-> FALSE, saved |-> FALSE, at |-> now]

\* self.jobs.columns after the writes of the loop.
columns_of(df, cols) == IF df = <<>> THEN cols ELSE DOMAIN df[1]

\* valid_updates (line 129): the keyword arguments naming a column, in order.
IsValidColumn(u) == u.k \in columns

valid_updates(kwargs) == SelectSeq(kwargs, IsValidColumn)

\* The per-column conversion of the loop body (lines 137-142).
coerce(col, value) ==
    CASE col = "deadline" -> to_datetime(value)
      [] col \in {"rate", "hours"} -> float(value)
      [] col = "paid" -> bool(value)
      [] OTHER -> Ok(value)

\* The loop of lines 135-144: each update is converted and written in turn;
\* a conversion that raises leaves the writes already made in place.
RECURSIVE apply_updates(_, _, _)
apply_updates(df, project_name, ups) ==
    IF ups = <<>> THEN [df |-> df, raised |-> FALSE]
    ELSE LET c == coerce(Head(ups).k, Head(ups).v)
         IN  IF ~c.ok THEN [df |-> df, raised |-> TRUE]
             ELSE apply_updates(SetLoc(df, project_name, Head(ups).k, c.v),
                                project_name, Tail(ups))

\* Updates applied without the column filter.
edit_updates_unfiltered(kwargs) == kwargs

\* The updates edit_job goes on to apply (lines 128-129).
edit_updates(kwargs) == valid_updates(kwargs)

edit_job(project_name, kwargs) ==
    LET ups == edit_updates(kwargs)
        res == apply_updates(jobs, project_name, ups)
    IN  /\ ncalls < MaxCalls
        /\ ncalls' = ncalls + 1
        /\ prev' = jobs
        /\ out' = None
        /\ UNCHANGED now
        /\ IF ~HasProject(jobs, project_name) \/ ups = <<>>
           THEN /\ UNCHANGED <<jobs, columns, file>>
                /\ last' = [op |-> "edit_job", project_name |-> project_name,
                            kwargs |-> kwargs, raised |-> FALSE, saved |-> FALSE,
                            at |-> now]
           ELSE /\ jobs' = res.df
                /\ columns' = columns_of(res.df, columns)
                /\ IF res.raised
                   THEN /\ UNCHANGED file
                        /\ last' = [op |-> "edit_job", project_name |-> project_name,
                                    kwargs |-> kwargs, raised |-> TRUE,
                                    saved |-> FALSE, at |-> now]
                   ELSE /\ file' = save_data(jobs', columns')
                        /\ last' = [op |-> "edit_job", project_name |-> project_name,
                                    kwargs |-> kwargs, raised |-> FALSE,
                                    saved |-> TRUE, at |-> now]

\* hours * rate of one row: NaN (None) when a factor is missing.
product(row) ==
    IF row["hours"].t = "num" /\ row["rate"].t = "num"
    THEN Num(row["hours"].v * row["rate"].v)
    ELSE None

\* Series.dt.strftime('%Y-%m-%d'): the day of a point in time, as text.
strftime(x) == IF x.t = "time" THEN [t |-> "ymd", v |-> x.v] ELSE x

\* The printed row of list_jobs (lines 72-76).
render(row) ==
    [c \in DOMAIN row \cup {"estimated_pay"} |->
        CASE c = "estimated_pay" -> product(row)
          [] c \in {"deadline", "date_added"} -> strftime(row[c])
          [] OTHER -> row[c]]

\* df = df[df['paid'] == False] on a frame given by its index labels.
unpaid_of(df, index) ==
    LET keep(i) == df[i]["paid"] = Bool(FALSE) IN SelectSeq(index, keep)

\* The deadline window of lines 65-67.
upcoming_of(df, index, today, days) ==
    LET keep(i) == /\ df[i]["deadline"].v <= today + days
                   /\ df[i]["deadline"].v >= today
    IN  SelectSeq(index, keep)

\* Whether list_jobs applies the deadline window (line 64).
window_given(upcoming_deadlines) == truthy(upcoming_deadlines)

\* The index labels of the rows list_jobs prints.
list_index(df, filter_unpaid, upcoming_deadlines, today) ==
    LET all == [i \in 1..Len(df) |-> i]
        a == IF filter_unpaid THEN unpaid_of(df, all) ELSE all
    IN  IF window_given(upcoming_deadlines)
        THEN upcoming_of(df, a, today, upcoming_deadlines.v)
        ELSE a

list_jobs(filter_unpaid, upcoming_deadlines) ==
    LET idx == list_index(jobs, filter_unpaid, upcoming_deadlines, now)
    IN  /\ ncalls < MaxCalls
        /\ ncalls' = ncalls + 1
        /\ prev' = jobs
        /\ out' = [index |-> idx, rows |-> [n \in DOMAIN idx |-> render(jobs[idx[n]])]]
        /\ last' = [op |-> "list_jobs", project_name |-> "",
                    kwargs |-> <<[k |-> "filter_unpaid", v |-> Bool(filter_unpaid)],
                                 [k |-> "upcoming_deadlines", v |-> upcoming_deadlines]>>,
                    raised |-> FALSE, saved |-> FALSE, at |-> now]
        /\ UNCHANGED <<jobs, columns, file, now>>

\* Series.sum(): the sum of the numbers, NaN skipped.
RECURSIVE nansum(_)
nansum(s) ==
    IF s = <<>> THEN 0
    ELSE (IF Head(s).t = "num" THEN Head(s).v ELSE 0) + nansum(Tail(s))

\* A sum that forgets the paid mask.
earnings_all_rows(df, flag) == nansum([n \in DOMAIN df |-> product(df[n])])

\* (frame['hours'] * frame['rate']).sum() over the rows with paid = flag.
earnings(df, flag) ==
    LET keep(row) == row["paid"] = Bool(flag)
        sel == SelectSeq(df, keep)
    IN  nansum([n \in DOMAIN sel |-> product(sel[n])])

\* self.jobs['paid'].sum()
paid_count(df) == Cardinality({i \in DOMAIN df : df[i]["paid"] = Bool(TRUE)})

StatsWindowDays == 7

get_stats ==
    /\ ncalls < MaxCalls
    /\ ncalls' = ncalls + 1
    /\ prev' = jobs
    /\ last' = [op |-> "get_stats", project_name |-> "", kwargs |-> <<>>,
                raised |-> FALSE, saved |-> FALSE, at |-> now]
    /\ out' = IF jobs = <<>> THEN None
              ELSE [total_jobs |-> Len(jobs),
                    paid_jobs |-> paid_count(jobs),
                    unpaid_jobs |-> Len(jobs) - paid_count(jobs),
                    total_earnings |-> earnings(jobs, TRUE),
                    potential_earnings |-> earnings(jobs, FALSE),
                    upcoming |-> upcoming_of(jobs, [i \in 1..Len(jobs) |-> i],
                                             now, StatsWindowDays)]
    /\ UNCHANGED <<jobs, columns, file, now>>

\* The record store: the mutating operations, on every input of the sets above.
Next ==
    \/ Tick
    \/ \E c \in ClientNames, p \in ProjectNames, r \in RateInputs,
          d \in DeadlineInputs, h \in HoursInputs, n \in NotesInputs :
          add_job(c, p, r, d, h, n)
    \/ \E p \in ProjectNames : mark_as_paid(p)
    \/ \E p \in ProjectNames, kw \in Kwargs : edit_job(p, kw)

Spec == Init /\ [][Next]_vars

\* The query engine: list_jobs and get_stats over collections built by valid
\* add_job and mark_as_paid calls.
QueryNext ==
    \/ Tick
    \/ \E c \in ClientNames, p \in QueryProjectNames, r \in QueryRateInputs,
          d \in QueryDeadlineInputs, h \in QueryHoursInputs, n \in NotesInputs :
          add_job(c, p, r, d, h, n)
    \/ \E p \in QueryProjectNames : mark_as_paid(p)
    \/ \E f \in BOOLEAN, d \in DaysInputs : list_jobs(f, d)
    \/ get_stats

QuerySpec == Init /\ [][QueryNext]_vars

(* ------------------------------- claims ------------------------------- *)

\* The call recorded in last found its project in the collection it ran on.
Found == \E i \in DOMAIN prev : prev[i]["project_name"] = Str(last.project_name)

\* The arguments of the add_job call recorded in last are well-formed.
ValidAddArgs ==
    /\ float(last.kwargs[1].v).ok
    /\ to_datetime(last.kwargs[2].v).ok
    /\ truthy(last.kwargs[3].v) => float(last.kwargs[3].v).ok

\* C1: a valid add_job call does not raise and leaves exactly one more record;
\* the new record is the last one, has paid = false and date_added = the time
\* of the call, and the records that existed before keep their values and
\* their order.
C1_AddAppends ==
    (last.op = "add_job" /\ ValidAddArgs) =>
        /\ ~last.raised
        /\ Len(jobs) = Len(prev) + 1
        /\ jobs[Len(jobs)]["paid"] = Bool(FALSE)
        /\ jobs[Len(jobs)]["project_name"] = Str(last.project_name)
        /\ jobs[Len(jobs)]["date_added"] = Time(last.at)
        /\ \A i \in DOMAIN prev : jobs[i] = prev[i]

C1_Witness ==
    /\ last.op = "add_job" /\ ~last.raised
    /\ Len(prev) = 1 /\ Len(jobs) = 2
    /\ prev[1]["paid"] = Bool(TRUE)

\* C2: an add_job or edit_job call that raises on a malformed rate, hours or
\* deadline leaves the in-memory collection as it was before the call.
C2_NoPartialMutation ==
    (last.op \in {"add_job", "edit_job"} /\ last.raised) => jobs = prev

\* C3 (as stated): mark_as_paid on a project that exists sets paid on the first
\* matching record and leaves every other record unchanged.
C3_FirstMatchOnly ==
    (last.op = "mark_as_paid" /\ Found) =>
        LET match == {i \in DOMAIN prev :
                         prev[i]["project_name"] = Str(last.project_name)}
            first == CHOOSE i \in match : \A j \in match : i <= j
        IN  jobs = [prev EXCEPT ![first] = [prev[first] EXCEPT !["paid"] = Bool(TRUE)]]

\* C3 (amended): mark_as_paid on a project that exists sets paid on every record
\* with that project_name, changes no other field of them, and leaves the
\* records with another project_name unchanged.
C3_AllMatchesPaid ==
    (last.op = "mark_as_paid" /\ Found) =>
        /\ Len(jobs) = Len(prev)
        /\ \A i \in DOMAIN prev :
              jobs[i] = IF prev[i]["project_name"] = Str(last.project_name)
                        THEN [prev[i] EXCEPT !["paid"] = Bool(TRUE)]
                        ELSE prev[i]

C3_Witness ==
    /\ last.op = "mark_as_paid"
    /\ Len(prev) = 2
    /\ prev[1]["project_name"] = Str(last.project_name)
    /\ prev[2]["project_name"] = Str(last.project_name)
    /\ prev[1]["paid"] = Bool(FALSE) /\ prev[2]["paid"] = Bool(FALSE)
    /\ jobs[2]["paid"] = Bool(TRUE)

\* C4: date_added is immutable: no call changes the date_added of a record
\* that existed before it.
C4_DateAddedImmutable ==
    /\ Len(prev) <= Len(jobs)
    /\ \A i \in DOMAIN prev : jobs[i]["date_added"] = prev[i]["date_added"]

\* C5: mark_as_paid or edit_job on a project_name no record has does not raise,
\* changes no record and does not rewrite the backing file.
C5_NotFoundNoEffect ==
    (last.op \in {"mark_as_paid", "edit_job"} /\ ~Found) =>
        /\ ~last.raised
        /\ jobs = prev
        /\ ~last.saved

C5_Witness ==
    /\ last.op = "edit_job" /\ ~Found
    /\ last.kwargs = <<KwHours>>
    /\ Len(prev) = 1
    /\ file = to_csv(jobs, columns)

\* The recognized updates of the call recorded in last, converted.
Recognized == {u \in {last.kwargs[n] : n \in DOMAIN last.kwargs} : u.k \in Columns}

WellFormed == \A u \in Recognized : coerce(u.k, u.v).ok

\* C6: edit_job on an existing project with keys outside the column set does
\* not raise because of them, adds no column and changes no field for them,
\* and still applies every recognized key of the same mapping to the matched
\* records.
C6_UnknownKeysIgnored ==
    (last.op = "edit_job" /\ Found /\ WellFormed) =>
        /\ ~last.raised
        /\ columns = Columns
        /\ Len(jobs) = Len(prev)
        /\ \A i \in DOMAIN prev :
              /\ DOMAIN jobs[i] = Columns
              /\ \A c \in Columns :
                    IF /\ prev[i]["project_name"] = Str(last.project_name)
                       /\ \E u \in Recognized : u.k = c
                    THEN \E u \in Recognized : u.k = c /\ jobs[i][c] = coerce(c, u.v).v
                    ELSE jobs[i][c] = prev[i][c]

C6_Witness ==
    /\ last.op = "edit_job" /\ Found
    /\ last.kwargs = <<KwBogus, KwHours>>
    /\ \E i \in DOMAIN prev :
          /\ prev[i]["project_name"] = Str(last.project_name)
          /\ prev[i]["hours"] = None
          /\ jobs[i]["hours"] = Num(4)

\* C7: every record's rate, and its hours when present, is non-negative.
C7_NonNegative ==
    \A i \in DOMAIN jobs :
        /\ jobs[i]["rate"].t = "num" /\ jobs[i]["rate"].v >= 0
        /\ jobs[i]["hours"].t = "num" => jobs[i]["hours"].v >= 0

\* The collection stored in the backing file, an absent file being empty.
Stored == IF file.exists THEN file.rows ELSE <<>>

\* C8: whenever an operation has returned, normally or with an error, the
\* collection stored in the backing file equals the in-memory collection.
C8_FileEqualsMemory == Stored = jobs

\* The arguments of the list_jobs call recorded in last.
ListUnpaid == last.kwargs[1].v.v
ListDays == last.kwargs[2].v

\* The records C9 expects: deadline in [now, now + d], unpaid if asked for.
InWindow(i) ==
    /\ jobs[i]["deadline"].v >= last.at
    /\ jobs[i]["deadline"].v <= last.at + ListDays.v
    /\ ListUnpaid => jobs[i]["paid"] = Bool(FALSE)

\* C9: list_jobs with upcoming_deadlines = d, for every d >= 0, returns exactly
\* the records with deadline in [now, now + d] (the unpaid ones of them when
\* filter_unpaid is set), in insertion order, and does not modify the
\* collection.
C9_WindowForEveryD ==
    (last.op = "list_jobs" /\ ListDays.t = "num") =>
        /\ jobs = prev
        /\ \A n \in DOMAIN out.index : InWindow(out.index[n])
        /\ \A i \in DOMAIN jobs : InWindow(i) => \E n \in DOMAIN out.index : out.index[n] = i
        /\ \A m, n \in DOMAIN out.index : m < n => out.index[m] < out.index[n]

\* The sum of f over a finite set of row positions.
RECURSIVE SumOver(_, _)
SumOver(S, df) ==
    IF S = {} THEN 0
    ELSE LET i == CHOOSE x \in S : TRUE
         IN  df[i]["hours"].v * df[i]["rate"].v + SumOver(S \ {i}, df)

WithBoth(flag) ==
    {i \in DOMAIN jobs : /\ jobs[i]["paid"] = Bool(flag)
                         /\ jobs[i]["hours"].t = "num"
                         /\ jobs[i]["rate"].t = "num"}

\* C10: get_stats on a non-empty collection reports total_jobs = paid_jobs +
\* unpaid_jobs, total_earnings = the sum of hours * rate over the paid records
\* that have both fields, potential_earnings = the same sum over the unpaid
\* ones; a record without hours adds nothing to either sum.
C10_StatsSums ==
    (last.op = "get_stats" /\ jobs # <<>>) =>
        /\ out.total_jobs = Len(jobs)
        /\ out.total_jobs = out.paid_jobs + out.unpaid_jobs
        /\ out.total_earnings = SumOver(WithBoth(TRUE), jobs)
        /\ out.potential_earnings = SumOver(WithBoth(FALSE), jobs)

C10_Witness ==
    /\ last.op = "get_stats" /\ Len(jobs) = 2
    /\ jobs[1]["paid"] = Bool(TRUE) /\ jobs[1]["hours"] = Num(4)
    /\ jobs[2]["paid"] = Bool(FALSE) /\ jobs[2]["hours"] = None
    /\ out.total_earnings > 0
    /\ out.potential_earnings = 0

====
